---- MODULE Spec2Model ----
\* Water-quality anomaly toolkit (wqdab): the time-series preparer, the anomaly
\* window extractor, the zoom renderer, the CSV loader and the LOF baseline,
\* modelled over small tables whose cells keep their pandas kind.
EXTENDS Integers, Sequences, FiniteSets, TLC

VARIABLES
    df,         \* the caller's raw frame (the object handed to prepare_time_series)
    df_ts,      \* the caller's time-indexed frame, NoFrame before there is one
    df_re,      \* what a second prepare_time_series call returned, NoFrame before
    call,       \* the last call made: operation, arguments, outcome
    windows,    \* the list get_anomaly_windows returned last
    files,      \* the filesystem: path -> "absent" | "file" | "dir"
    figures,    \* number of matplotlib figures currently open
    stdout,     \* what the last call printed, in order
    baseline    \* the matrix given to lof_baseline and what came back

vars == <<df, df_ts, df_re, call, windows, files, figures, stdout, baseline>>

----------------------------------------------------------------------------
\* Bounds of the model.

MaxEvents == 4      \* rows of a table handed to get_anomaly_windows
MaxMinute == 2      \* timestamps of such a table are T0 + 0..MaxMinute minutes
MaxMargin == 2      \* largest margin_minutes tried (the smallest is -1)
MaxRows   == 2      \* rows of a raw frame handed to prepare_time_series
MaxTime   == 1      \* raw time cells spell T0 + 0..MaxTime minutes
MaxSamples == 6     \* rows of the matrix handed to lof_baseline
MaxFigures == 2     \* figures that may stay open before the session stops plotting
MaxWindows == 2     \* windows of a list the caller writes by hand
MaxDatasets == 4    \* frames in what a dataset loader returns

----------------------------------------------------------------------------
\* Cells.  A cell is <<kind, n>>: the kind is the pandas/Python kind of the
\* value, n its content.  Timestamps are minutes after T0.

Ts(t)   == <<"ts", t>>          \* pd.Timestamp T0 + t minutes
NaT     == <<"nat", 0>>         \* missing timestamp
Str(n)  == <<"str", n>>         \* text; n >= 0 spells the number / minute n, n < 0 is unparseable
Num(n)  == <<"num", n>>         \* float64 / int64 value
NaN     == <<"nan", 0>>         \* missing value
Bool(b) == <<"bool", IF b THEN 1 ELSE 0>>
Absent  == <<"absent", 0>>      \* the frame has no such column

\* A frame: the name of its index, its columns in order, the dtype pandas
\* keeps for each column (and for the index), and its rows in order.
NoDtypes == [Time |-> "absent", v |-> "absent", EVENT |-> "absent"]
NoFrame  == [index |-> "none", columns |-> <<>>, dtypes |-> NoDtypes, rows |-> <<>>]

Min2(a, b) == IF a <= b THEN a ELSE b
Max2(a, b) == IF a >= b THEN a ELSE b

SeqsUpTo(S, n) == UNION {[1..k -> S] : k \in 0..n}

\* The index of a time-indexed frame, as a sequence of minutes.
IndexOf(f) == [i \in 1..Len(f.rows) |-> f.rows[i].Time[2]]

IndexMin(f) == CHOOSE m \in {IndexOf(f)[i] : i \in 1..Len(f.rows)} :
                   \A i \in 1..Len(f.rows) : m <= IndexOf(f)[i]
IndexMax(f) == CHOOSE m \in {IndexOf(f)[i] : i \in 1..Len(f.rows)} :
                   \A i \in 1..Len(f.rows) : m >= IndexOf(f)[i]

----------------------------------------------------------------------------
\* get_anomaly_windows (wqdab/visualization/anomaly_plots.py).

\* Series.shift(periods, fill_value): position i takes the value of position
\* i - periods, fill_value where there is none.
ShiftNoFill(events, periods, fill_value) ==
    [i \in 1..Len(events) |->
        IF i - periods \in 1..Len(events) THEN events[i - periods] ELSE ~fill_value]

Shift(events, periods, fill_value) ==
    [i \in 1..Len(events) |->
        IF i - periods \in 1..Len(events) THEN events[i - periods] ELSE fill_value]

\* index[mask].tolist(): the index values at the positions where mask is True.
RECURSIVE BoolIndex(_, _)
BoolIndex(index, mask) ==
    IF index = <<>> THEN <<>>
    ELSE (IF Head(mask) THEN <<Head(index)>> ELSE <<>>)
             \o BoolIndex(Tail(index), Tail(mask))

ZipReversed(a, b) == [k \in 1..Min2(Len(a), Len(b)) |-> <<a[k], b[Len(b) + 1 - k]>>]

\* zip(a, b): pairs up to the shorter list.
Zip(a, b) == [k \in 1..Min2(Len(a), Len(b)) |-> <<a[k], b[k]>>]

\* The boolean event column as a sequence of booleans.
EventSeries(f, event_col) == [i \in 1..Len(f.rows) |-> f.rows[i][event_col] = Bool(TRUE)]

WindowNoClip(f, margin, anom_start, anom_end) ==
    <<anom_start - margin, anom_end + margin, anom_start, anom_end>>

\* One window: the run's bounds widened by the margin, clipped to the table.
Window(f, margin, anom_start, anom_end) ==
    <<Max2(IndexMin(f), anom_start - margin),
      Min2(IndexMax(f), anom_end + margin),
      anom_start, anom_end>>

get_anomaly_windows(f, event_col, margin_minutes) ==
    LET events       == EventSeries(f, event_col)
        event_starts == [i \in 1..Len(events) |->
                            events[i] /\ ~Shift(events, 1, FALSE)[i]]
        event_ends   == [i \in 1..Len(events) |->
                            events[i] /\ ~Shift(events, -1, FALSE)[i]]
        start_times  == BoolIndex(IndexOf(f), event_starts)
        end_times    == BoolIndex(IndexOf(f), event_ends)
        pairs        == Zip(start_times, end_times)
    IN  IF Len(start_times) = 0 THEN <<>>
        ELSE [k \in 1..Len(pairs) |-> Window(f, margin_minutes, pairs[k][1], pairs[k][2])]

----------------------------------------------------------------------------
\* prepare_time_series (wqdab/utils/data_utils.py).

None      == [some |-> FALSE, val |-> <<>>]
Some(x)   == [some |-> TRUE, val |-> x]

HasColumnAlways(f, col) == TRUE

\* col in df.columns
HasColumn(f, col) == \E k \in 1..Len(f.columns) : f.columns[k] = col

\* pd.to_datetime(errors='coerce'): text that spells a time becomes that
\* timestamp, a timestamp stays, everything else becomes NaT.
to_datetime(c) ==
    CASE c[1] = "str" /\ c[2] >= 0 -> Ts(c[2])
      [] c[1] = "ts" -> c
      [] OTHER -> NaT

\* pd.to_numeric(errors='coerce'): text that spells a number becomes that
\* number, a number stays, everything else becomes NaN.
to_numeric(c) ==
    CASE c[1] = "str" /\ c[2] >= 0 -> Num(c[2])
      [] c[1] = "num" -> c
      [] OTHER -> NaN

\* The text of the EVENT column's string cells, by code.
EventWords == <<"YES", "0">>
Lower(s) == CASE s = "YES" -> "yes" [] s = "True" -> "true" [] s = "False" -> "false" [] OTHER -> s

\* astype(str) of an EVENT cell.
AsStr(c) ==
    CASE c[1] = "str" -> EventWords[c[2]]
      [] c[1] = "bool" -> (IF c[2] = 1 THEN "True" ELSE "False")
      [] OTHER -> "nan"

\* df[event_col].astype(str).str.lower().isin(["true", "1", "t", "yes", "yes"])
to_event(c) == Bool(Lower(AsStr(c)) \in {"true", "1", "t", "yes", "yes"})

\* The conversion that yields a series of the given dtype.
Convert(c, dtype) ==
    CASE dtype = "datetime64" -> to_datetime(c)
      [] dtype = "float64" -> to_numeric(c)
      [] dtype = "bool" -> to_event(c)

\* df[col] = <converted df[col]>: assignment of a converted column, in place;
\* the column takes the dtype of the converted series.
SetColumn(f, col, dtype) ==
    [f EXCEPT !.rows = [i \in 1..Len(f.rows) |->
                           [f.rows[i] EXCEPT ![col] = Convert(f.rows[i][col], dtype)]],
              !.dtypes = [@ EXCEPT ![col] = dtype]]

\* df[col].dtype: a column keeps its dtype when rows are dropped or reordered.
Dtype(f, col) == f.dtypes[col]

\* df.select_dtypes(include=dtypes).columns.tolist()
select_dtypes(f, dtypes) == SelectSeq(f.columns, LAMBDA c : Dtype(f, c) \in dtypes)

\* list.remove(x) when x is in the list (column names are distinct).
ListRemove(l, x) == SelectSeq(l, LAMBDA c : c # x)

\* for col in numeric_cols: if col in df.columns: df[col] = pd.to_numeric(...)
RECURSIVE CoerceNumeric(_, _)
CoerceNumeric(f, cols) ==
    IF cols = <<>> THEN f
    ELSE CoerceNumeric(IF HasColumn(f, Head(cols)) THEN SetColumn(f, Head(cols), "float64") ELSE f,
                       Tail(cols))

IsnaNaNOnly(c) == c[1] = "nan"

isna(c) == c[1] \in {"nat", "nan"}

DropnaTimeOnly(f, subset) ==
    [f EXCEPT !.rows = SelectSeq(f.rows, LAMBDA r : ~isna(r[subset[1]]))]

\* df.dropna(subset=cols): the rows with no missing cell in cols, in order.
dropna(f, subset) ==
    [f EXCEPT !.rows = SelectSeq(f.rows, LAMBDA r : \A k \in 1..Len(subset) : ~isna(r[subset[k]]))]

Orderings(n) == {p \in [1..n -> 1..n] : \A i, j \in 1..n : i # j => p[i] # p[j]}

SortNone(f, col) == {f}

\* df.sort_values(col) with the default kind='quicksort', which is not stable:
\* every ordering that is ascending in col is a possible result.
sort_values(f, col) ==
    {[f EXCEPT !.rows = [i \in 1..Len(f.rows) |-> f.rows[p[i]]]] :
        p \in {q \in Orderings(Len(f.rows)) :
                  \A i, j \in 1..Len(f.rows) :
                      i < j => f.rows[q[i]][col][2] <= f.rows[q[j]][col][2]}}

SetIndexKeepColumn(f, col) == [f EXCEPT !.index = col]

\* df.reset_index(drop=True).set_index(col).sort_index(): the column becomes
\* the index; sort_index leaves an index that is already ascending as it is.
set_index(f, col) ==
    [f EXCEPT !.index = col, !.columns = ListRemove(f.columns, col)]

\* df.reset_index() of a time-indexed frame: the index becomes the first column.
reset_index(f) ==
    [f EXCEPT !.index = "RangeIndex", !.columns = <<f.index>> \o f.columns]

AliasFrame(f) == [frame |-> f, shared |-> TRUE]

\* df = df.copy(): the function works on an object of its own.
CopyFrame(f) == [frame |-> f, shared |-> FALSE]

\* The possible outcomes of prepare_time_series(d, time_col, event_col,
\* numeric_cols): arg is the caller's object after the call, ret the returned
\* frame, raised the exception that left the call.
prepare_time_series(d, time_col, event_col, numeric_cols) ==
    LET work   == CopyFrame(d)
        d1     == IF HasColumn(work.frame, time_col)
                  THEN SetColumn(work.frame, time_col, "datetime64")
                  ELSE work.frame
        ncols  == IF numeric_cols = None
                  THEN ListRemove(select_dtypes(d1, {"float64", "int64"}), event_col)
                  ELSE numeric_cols.val
        d2     == CoerceNumeric(d1, ncols)
        d3     == IF HasColumn(d2, event_col) /\ Dtype(d2, event_col) # "bool"
                  THEN SetColumn(d2, event_col, "bool")
                  ELSE d2
        subset == <<time_col>> \o ncols
        after  == IF work.shared THEN d3 ELSE d
    IN  IF \E k \in 1..Len(subset) : ~HasColumn(d3, subset[k])
        THEN {[arg |-> after, ret |-> NoFrame, raised |-> "KeyError", subset |-> subset]}
        ELSE {[arg |-> after, ret |-> set_index(s, time_col), raised |-> "none", subset |-> subset] :
                 s \in sort_values(dropna(d3, subset), time_col)}

\* load_and_prepare_dataset (wqdab/utils/data_utils.py).  load_func is
\* <<"function", data>> for a callable that returns data and <<"value", data>>
\* for data handed over as it is; data is a sequence of frames, NoFrame
\* standing for None.

\* load_func()
CallLoader(load_func) == load_func[2]

Unpack3TrainTestVal(data) == [train |-> data[1], test |-> data[2], val |-> data[3]]

\* train_df, val_df, test_df = data
Unpack3(data) == [train |-> data[1], val |-> data[2], test |-> data[3]]

\* train_df, test_df = data; val_df = None
Unpack2(data) == [train |-> data[1], test |-> data[2], val |-> NoFrame]

\* df.shape
Shape(f) == <<Len(f.rows), Len(f.columns)>>

\* The outcomes of load_and_prepare_dataset(load_func, year, numeric_cols=...):
\* the exception raised, the tuple returned, the frames handed to
\* prepare_time_series in call order, and what was printed.
load_and_prepare_dataset(load_func, numeric_cols) ==
    LET data    == IF load_func[1] = "function" THEN CallLoader(load_func) ELSE load_func[2]
        u       == IF Len(data) = 2 THEN Unpack2(data) ELSE Unpack3(data)
        loading == << <<"loading">> >>
        shapes  == Append(loading, <<"shapes", Shape(u.train), Shape(u.test)>>)
        printed == IF u.val # NoFrame THEN Append(shapes, <<"val", Shape(u.val)>>) ELSE shapes
    IN  IF Len(data) # 2 /\ Len(data) # 3
        THEN {[raised |-> "ValueError", ret |-> <<>>, prepared |-> <<>>, stdout |-> loading]}
        ELSE IF u.train = NoFrame \/ u.test = NoFrame
        THEN {[raised |-> "AttributeError", ret |-> <<>>, prepared |-> <<>>, stdout |-> loading]}
        ELSE {IF tr.raised # "none"
              THEN [raised |-> tr.raised, ret |-> <<>>, prepared |-> <<"train">>, stdout |-> printed]
              ELSE IF te.raised # "none"
              THEN [raised |-> te.raised, ret |-> <<>>, prepared |-> <<"train", "test">>,
                    stdout |-> printed]
              ELSE IF u.val = NoFrame
              THEN [raised |-> "none", ret |-> <<tr.ret, te.ret, NoFrame>>,
                    prepared |-> <<"train", "test">>, stdout |-> printed]
              ELSE IF va.raised # "none"
              THEN [raised |-> va.raised, ret |-> <<>>, prepared |-> <<"train", "test", "val">>,
                    stdout |-> printed]
              ELSE [raised |-> "none", ret |-> <<tr.ret, te.ret, va.ret>>,
                    prepared |-> <<"train", "test", "val">>, stdout |-> printed] :
                tr \in prepare_time_series(u.train, "Time", "EVENT", numeric_cols),
                te \in prepare_time_series(u.test, "Time", "EVENT", numeric_cols),
                va \in IF u.val = NoFrame THEN {[raised |-> "none", ret |-> NoFrame]}
                       ELSE prepare_time_series(u.val, "Time", "EVENT", numeric_cols)}

----------------------------------------------------------------------------
\* Paths and the filesystem.  A path is <<directory, name, number>>; the
\* directory itself is <<directory, "", -1>>, a numbered figure of a batch is
\* <<directory, prefix, i>> for {directory}/{prefix}_{i}.png.

RAW_DATA_DIR == "data/raw"
FIGURES_DIR  == "reports/figures"

DirPath(d)          == <<d, "", 0 - 1>>
FilePath(d, name)   == <<d, name, 0 - 1>>
BatchPathOneBased(d, pre, i) == <<d, pre, i + 1>>

\* save_dir / f'{prefix}_{i}.png'
BatchPath(d, pre, i) == <<d, pre, i>>
Parent(p)           == DirPath(p[1])

DefaultCsv == FilePath(RAW_DATA_DIR, "1_gecco2018_water_quality.csv")
OtherCsv   == FilePath("downloads", "gecco.csv")
ArchiveCsv == FilePath("archive", "gecco2018.csv")
CsvPaths   == {DefaultCsv, OtherCsv, ArchiveCsv}

ZoomPng    == FilePath(FIGURES_DIR, "zoom.png")
BatchPngs  == {BatchPath(FIGURES_DIR, "anomaly_zoom", i) : i \in 0..MaxEvents}
FigPaths   == {DirPath(FIGURES_DIR), ZoomPng} \cup BatchPngs

AllPaths   == CsvPaths \cup FigPaths

NoFiles    == [p \in AllPaths |-> "absent"]

NoBaseline == [n_rows |-> 0, labels |-> <<>>, scores |-> <<>>]

\* Path(text): the path a string spells; a doubled separator spells the same
\* path as a single one.
PathOf(text) ==
    CASE text = "downloads/gecco.csv"  -> OtherCsv
      [] text = "downloads//gecco.csv" -> OtherCsv
      [] text = "archive/gecco2018.csv" -> ArchiveCsv
      [] OTHER -> FilePath(".", text)

ExistsAlways(fs, p) == TRUE

\* Path.exists(): true of a file and of a directory.
Exists(fs, p) == fs[p] # "absent"

----------------------------------------------------------------------------
\* load_gecco2018_csv (src/data/loaders.py).

\* csv_path = Path(path) if path is not None else RAW_DATA_DIR / "1_gecco2018_water_quality.csv"
Resolve(path) == IF path # None THEN PathOf(path.val) ELSE DefaultCsv

\* pd.read_csv(p): the read is attempted on p and fails where p is no file.
read_csv(fs, p) ==
    IF fs[p] = "absent"
    THEN [raised |-> "FileNotFoundError", by |-> "read_csv", message |-> <<p>>, reads |-> <<p>>]
    ELSE IF fs[p] = "dir"
    THEN [raised |-> "IsADirectoryError", by |-> "read_csv", message |-> <<p>>, reads |-> <<p>>]
    ELSE [raised |-> "none", by |-> "none", message |-> <<>>, reads |-> <<p>>]

\* The outcome of load_gecco2018_csv(path) on filesystem fs: the exception
\* raised, who raised it, the path its message names, and the paths
\* pd.read_csv was given.
load_gecco2018_csv(fs, path) ==
    LET csv_path == Resolve(path)
    IN  IF ~Exists(fs, csv_path)
        THEN [raised |-> "FileNotFoundError", by |-> "load_gecco2018_csv",
              message |-> <<csv_path>>, reads |-> <<>>]
        ELSE read_csv(fs, csv_path)

----------------------------------------------------------------------------
\* lof_baseline (src/models/baselines.py).

AsFloat(n) == <<"float64", n>>

ScoresNotNegated(labels) == [i \in 1..Len(labels) |-> AsFloat(labels[i])]

\* scores = -lof.fit_predict(X); return scores.astype(float)
\* labels is what fit_predict returned: +1 for an inlier, -1 for an outlier.
lof_scores(labels) == [i \in 1..Len(labels) |-> AsFloat(0 - labels[i])]

----------------------------------------------------------------------------
\* plot_anomaly_zoom and plot_all_anomaly_windows
\* (wqdab/visualization/anomaly_plots.py).  An environment env holds the
\* filesystem, the number of open figures, what has been printed, the figures
\* created and the exception raised so far.

Env(fs, nfig) == [files |-> fs, figures |-> nfig, stdout |-> <<>>, created |-> 0,
                  renders |-> <<>>, raised |-> "none"]

Raise(env, exc) == [env EXCEPT !.raised = exc]

\* plt.subplots(...): a new figure is registered with pyplot.
NewFigure(env) == [env EXCEPT !.figures = @ + 1, !.created = @ + 1]

\* plt.close(fig)
CloseFigure(env) == [env EXCEPT !.figures = @ - 1]

\* Path.mkdir(parents=True, exist_ok=True): raises FileExistsError when the
\* path exists and is not a directory.
Mkdir(env, p) ==
    IF env.files[p] = "file" THEN Raise(env, "FileExistsError")
    ELSE [env EXCEPT !.files = [@ EXCEPT ![p] = "dir"]]

\* fig.savefig(path) then the confirmation print; disk_ok is whether the
\* write succeeds.
SaveFig(env, p, disk_ok) ==
    IF env.files[p] = "dir" THEN Raise(env, "IsADirectoryError")
    ELSE IF ~disk_ok THEN Raise(env, "OSError")
    ELSE [env EXCEPT !.files = [@ EXCEPT ![p] = "file"],
                     !.stdout = Append(@, <<"saved", p>>)]

SelectWindowExclusive(f, start, end) ==
    [f EXCEPT !.rows = SelectSeq(f.rows, LAMBDA r : r.Time[2] > start /\ r.Time[2] < end)]

\* df_ts.loc[(df_ts.index >= start_time) & (df_ts.index <= end_time)]: the
\* rows of f whose timestamp lies in [start, end], both ends included.
SelectWindow(f, start, end) ==
    [f EXCEPT !.rows = SelectSeq(f.rows, LAMBDA r : r.Time[2] >= start /\ r.Time[2] <= end)]

EmptySelectionGoesOn(df_window) == FALSE

\* if len(df_window) == 0
EmptySelection(df_window) == Len(df_window.rows) = 0

\* The environment after plot_anomaly_zoom(f, start_time, end_time, sensors,
\* save_path=save_path, show=show).  start_time and end_time are timestamps
\* or text (text that spells no time makes pd.to_datetime raise); sensors and
\* save_path are None or Some(.).  plt.show() leaves the figure registered.
plot_anomaly_zoom(env, f, start_time, end_time, sensors, save_path, show, disk_ok) ==
    LET start     == to_datetime(start_time)
        end       == to_datetime(end_time)
        df_window == SelectWindow(f, start[2], end[2])
        sens      == IF sensors = None
                     THEN ListRemove(select_dtypes(df_window, {"float64", "int64"}), "EVENT")
                     ELSE sensors.val
        fig       == NewFigure(env)
        made      == IF save_path # None THEN Mkdir(fig, Parent(save_path.val)) ELSE fig
        saved     == IF save_path # None /\ made.raised = "none"
                     THEN SaveFig(made, save_path.val, disk_ok)
                     ELSE made
    IN  IF isna(start) \/ isna(end) THEN Raise(env, "ValueError")
        ELSE IF EmptySelection(df_window)
        THEN [env EXCEPT !.stdout = Append(@, <<"warning", <<start[2], end[2]>> >>)]
        ELSE IF Len(sens) = 0 THEN Raise(fig, "ValueError")
        ELSE IF \E k \in 1..Len(sens) : ~HasColumn(df_window, sens[k]) THEN Raise(fig, "KeyError")
        ELSE IF saved.raised # "none" THEN saved
        ELSE IF show THEN saved
        ELSE CloseFigure(saved)

\* if save_dir: None and the empty string are both false.
Truthy(save_dir) == save_dir # None /\ save_dir.val # ""

\* The environment after plot_all_anomaly_windows(f, wins, sensors,
\* save_dir=save_dir, prefix=prefix), from the window at position i (counted
\* from 1) on.  env.renders lists the calls of plot_anomaly_zoom made so far
\* as <<i, save_path, show>>; a call that raises ends the loop.
RECURSIVE plot_all_from(_, _, _, _, _, _, _, _)
plot_all_from(env, f, wins, i, sensors, save_dir, prefix, disk_ok) ==
    IF i > Len(wins) THEN env
    ELSE LET made      == IF Truthy(save_dir) THEN Mkdir(env, DirPath(save_dir.val)) ELSE env
             save_path == IF Truthy(save_dir)
                          THEN Some(BatchPath(save_dir.val, prefix, i - 1))
                          ELSE None
             logged    == [made EXCEPT !.renders = Append(@, <<i - 1, save_path, FALSE>>)]
             done      == plot_anomaly_zoom(logged, f, Ts(wins[i][1]), Ts(wins[i][2]),
                                            sensors, save_path, FALSE, disk_ok)
         IN  IF made.raised # "none" THEN made
             ELSE IF done.raised # "none" THEN done
             ELSE plot_all_from(done, f, wins, i + 1, sensors, save_dir, prefix, disk_ok)

plot_all_anomaly_windows(env, f, wins, sensors, save_dir, prefix, disk_ok) ==
    plot_all_from(env, f, wins, 1, sensors, save_dir, prefix, disk_ok)

----------------------------------------------------------------------------
\* Tables handed to get_anomaly_windows: a datetime index (in any order, with
\* or without repeated timestamps) and a boolean EVENT column.

WinRow(t, e) == [Time |-> Ts(t), EVENT |-> Bool(e), v |-> Num(1)]

TimeFrame(rows) ==
    [index |-> "Time", columns |-> <<"v", "EVENT">>,
     dtypes |-> [Time |-> "datetime64", v |-> "float64", EVENT |-> "bool"], rows |-> rows]

\* The tables of up to n rows with timestamps T0 + 0..m minutes.
WinFrames(n, m) ==
    {TimeFrame(rs) : rs \in SeqsUpTo({WinRow(t, e) : t \in 0..m, e \in BOOLEAN}, n)}

\* Flags [F,F,T,T,F,T,F] at 1-minute steps from T0.
ScenarioFlags == <<FALSE, FALSE, TRUE, TRUE, FALSE, TRUE, FALSE>>
ScenarioFrame == TimeFrame([i \in 1..Len(ScenarioFlags) |-> WinRow(i - 1, ScenarioFlags[i])])

Margins == (0 - 1)..MaxMargin

NoCall == [op |-> "none", arg |-> <<>>, raised |-> "none", info |-> <<>>]

InitWin ==
    /\ df_ts \in WinFrames(MaxEvents, MaxMinute) \cup {ScenarioFrame}
    /\ df = NoFrame
    /\ df_re = NoFrame
    /\ call = NoCall
    /\ windows = <<>>
    /\ files = NoFiles
    /\ figures = 0
    /\ stdout = <<>>
    /\ baseline = NoBaseline

\* windows = get_anomaly_windows(df_ts, margin_minutes=m)
GetAnomalyWindows(m) ==
    /\ df_ts # NoFrame
    /\ windows' = get_anomaly_windows(df_ts, "EVENT", m)
    /\ call' = [op |-> "get_anomaly_windows", arg |-> <<m>>, raised |-> "none", info |-> <<>>]
    /\ UNCHANGED <<df, df_ts, df_re, files, figures, stdout, baseline>>

\* One call per table.
NextWin == call.op = "none" /\ \E m \in Margins : GetAnomalyWindows(m)

SpecWin == InitWin /\ [][NextWin]_vars

----------------------------------------------------------------------------
\* Raw frames handed to prepare_time_series: a Time column of text (a time,
\* unparseable text, or missing), a sensor column v (a number, unparseable
\* text, or missing) and an EVENT column (booleans, or text); frames without
\* the Time column or without the EVENT column as well.

RawRow(t, x, e) == [Time |-> t, v |-> x, EVENT |-> e]

RawTimeCells  == {Str(n) : n \in (0 - 1)..MaxTime} \cup {NaN}
RawValueCells == {Num(1), Str(0 - 1), NaN}
BoolCells     == {Bool(TRUE), Bool(FALSE)}
WordCells     == {Str(k) : k \in 1..Len(EventWords)}

\* The dtype read_csv infers for a column holding these cells.
InferDtype(rows, col) ==
    LET kinds == {rows[i][col][1] : i \in 1..Len(rows)}
    IN  IF kinds = {} THEN "object"
        ELSE IF kinds = {"absent"} THEN "absent"
        ELSE IF kinds \subseteq {"num", "nan"} THEN "float64"
        ELSE IF kinds = {"bool"} THEN "bool"
        ELSE "object"

RawFrame(columns, rows) ==
    [index |-> "RangeIndex", columns |-> columns,
     dtypes |-> [c \in {"Time", "v", "EVENT"} |-> InferDtype(rows, c)], rows |-> rows]

\* The raw frames of up to n rows.
RawFrames(n) ==
    {RawFrame(<<"Time", "v", "EVENT">>, rs) :
        rs \in SeqsUpTo({RawRow(t, x, e) : t \in RawTimeCells, x \in RawValueCells, e \in BoolCells}, n)
               \cup SeqsUpTo({RawRow(t, x, e) : t \in RawTimeCells, x \in RawValueCells, e \in WordCells}, n)}
    \cup {RawFrame(<<"v", "EVENT">>, rs) :
        rs \in SeqsUpTo({RawRow(Absent, x, e) : x \in RawValueCells, e \in BoolCells}, n)}
    \cup {RawFrame(<<"Time", "v">>, rs) :
        rs \in SeqsUpTo({RawRow(t, x, Absent) : t \in RawTimeCells, x \in RawValueCells}, n)}

\* numeric_cols as the caller gives it: left out, the sensor column, or a
\* list naming a column the frame does not have.
NumericColsArgs == {None, Some(<<"v">>), Some(<<"v", "w">>)}

InitPrep ==
    /\ df \in RawFrames(MaxRows)
    /\ df_ts = NoFrame
    /\ df_re = NoFrame
    /\ call = NoCall
    /\ windows = <<>>
    /\ files = NoFiles
    /\ figures = 0
    /\ stdout = <<>>
    /\ baseline = NoBaseline

\* df_ts = prepare_time_series(df, numeric_cols=nc)
Prepare(nc) ==
    /\ df # NoFrame
    /\ df_ts = NoFrame
    /\ \E o \in prepare_time_series(df, "Time", "EVENT", nc) :
          /\ df' = o.arg
          /\ df_ts' = o.ret
          /\ call' = [op |-> "prepare_time_series", arg |-> <<nc>>, raised |-> o.raised, info |-> <<>>]
    /\ UNCHANGED <<df_re, windows, files, figures, stdout, baseline>>

\* df_re = prepare_time_series(df_ts, numeric_cols=nc), nc as in the first call
PrepareAgain ==
    /\ call.op = "prepare_time_series"
    /\ call.raised = "none"
    /\ \E o \in prepare_time_series(df_ts, "Time", "EVENT", call.arg[1]) :
          /\ df_ts' = o.arg
          /\ df_re' = o.ret
          /\ call' = [op |-> "prepare_again", arg |-> call.arg, raised |-> o.raised, info |-> <<>>]
    /\ UNCHANGED <<df, windows, files, figures, stdout, baseline>>

\* df_re = prepare_time_series(df_ts.reset_index(), numeric_cols=nc)
PrepareAgainReset ==
    /\ call.op = "prepare_time_series"
    /\ call.raised = "none"
    /\ \E o \in prepare_time_series(reset_index(df_ts), "Time", "EVENT", call.arg[1]) :
          /\ df_re' = o.ret
          /\ call' = [op |-> "prepare_again_reset", arg |-> call.arg, raised |-> o.raised, info |-> <<>>]
    /\ UNCHANGED <<df, df_ts, windows, files, figures, stdout, baseline>>

NextPrep ==
    \/ \E nc \in NumericColsArgs : Prepare(nc)
    \/ PrepareAgain
    \/ PrepareAgainReset

SpecPrep == InitPrep /\ [][NextPrep]_vars

----------------------------------------------------------------------------
\* The dataset helper on its own: a loader, or its result handed over as a
\* value, of 0..MaxDatasets entries; an entry is a one-row frame whose time
\* parses to T0, parses to a later minute or does not parse, a frame without
\* the Time column, or None.

DatasetFrames ==
    {RawFrame(<<"Time", "v", "EVENT">>, <<RawRow(t, Num(1), Bool(TRUE))>>) :
        t \in {Str(0), Str(MaxTime), Str(0 - 1)}}
    \cup {RawFrame(<<"v", "EVENT">>, <<RawRow(Absent, Num(1), Bool(TRUE))>>)}

LoaderResults(n) == SeqsUpTo(DatasetFrames \cup {NoFrame}, n)

InitData ==
    /\ df = NoFrame
    /\ df_ts = NoFrame
    /\ df_re = NoFrame
    /\ call = NoCall
    /\ windows = <<>>
    /\ files = NoFiles
    /\ figures = 0
    /\ stdout = <<>>
    /\ baseline = NoBaseline

\* train, test, val = load_and_prepare_dataset(load_func, year, numeric_cols=nc)
LoadAndPrepare(load_func, nc) ==
    /\ \E o \in load_and_prepare_dataset(load_func, nc) :
          /\ call' = [op |-> "load_and_prepare_dataset", arg |-> <<load_func, nc>>,
                      raised |-> o.raised, info |-> <<o.ret, o.prepared>>]
          /\ stdout' = o.stdout
    /\ UNCHANGED <<df, df_ts, df_re, windows, files, figures, baseline>>

\* One call per loader result.
NextData ==
    /\ call.op = "none"
    /\ \E kind \in {"function", "value"}, data \in LoaderResults(MaxDatasets),
          nc \in {None, Some(<<"v">>)} :
           LoadAndPrepare(<<kind, data>>, nc)

SpecData == InitData /\ [][NextData]_vars

----------------------------------------------------------------------------
\* The CSV loader on its own: any filesystem over the CSV paths, any path
\* argument.

CsvFrame == RawFrame(<<"Time", "v", "EVENT">>, <<RawRow(Str(0), Num(1), Str(1))>>)

LoadArgs == {None, Some("downloads/gecco.csv"), Some("downloads//gecco.csv"),
             Some("archive/gecco2018.csv")}

InitLoad ==
    /\ files \in {fs \in [AllPaths -> {"absent", "file", "dir"}] :
                     \A p \in FigPaths : fs[p] = "absent"}
    /\ df = NoFrame
    /\ df_ts = NoFrame
    /\ df_re = NoFrame
    /\ call = NoCall
    /\ windows = <<>>
    /\ figures = 0
    /\ stdout = <<>>
    /\ baseline = NoBaseline

\* df = load_gecco2018_csv(path)
Load(path) ==
    /\ LET o == load_gecco2018_csv(files, path)
       IN  /\ call' = [op |-> "load_gecco2018_csv", arg |-> <<path>>, raised |-> o.raised,
                       info |-> <<o.by, o.message, o.reads>>]
           /\ df' = IF o.raised = "none" THEN CsvFrame ELSE df
    /\ UNCHANGED <<df_ts, df_re, windows, files, figures, stdout, baseline>>

NextLoad == \E path \in LoadArgs : Load(path)

SpecLoad == InitLoad /\ [][NextLoad]_vars

----------------------------------------------------------------------------
\* The LOF baseline on its own: a matrix of 0..MaxSamples rows, and any
\* labelling LocalOutlierFactor.fit_predict may return for it.

InitLof ==
    /\ baseline \in {[n_rows |-> n, labels |-> <<>>, scores |-> <<>>] : n \in 0..MaxSamples}
    /\ df = NoFrame
    /\ df_ts = NoFrame
    /\ df_re = NoFrame
    /\ call = NoCall
    /\ windows = <<>>
    /\ files = NoFiles
    /\ figures = 0
    /\ stdout = <<>>

\* scores, lof = lof_baseline(X): fit_predict needs two rows at least.
LofBaseline ==
    /\ call.op = "none"
    /\ baseline.n_rows >= 2
    /\ \E labels \in [1..baseline.n_rows -> {0 - 1, 1}] :
          baseline' = [baseline EXCEPT !.labels = labels, !.scores = lof_scores(labels)]
    /\ call' = [op |-> "lof_baseline", arg |-> <<>>, raised |-> "none", info |-> <<>>]
    /\ UNCHANGED <<df, df_ts, df_re, windows, files, figures, stdout>>

\* lof_baseline(X) on fewer than two rows: fit_predict raises.
LofBaselineTooFew ==
    /\ call.op = "none"
    /\ baseline.n_rows < 2
    /\ call' = [op |-> "lof_baseline", arg |-> <<>>, raised |-> "ValueError", info |-> <<>>]
    /\ UNCHANGED <<df, df_ts, df_re, windows, files, figures, stdout, baseline>>

NextLof == LofBaseline \/ LofBaselineTooFew

SpecLof == InitLof /\ [][NextLof]_vars

----------------------------------------------------------------------------
\* The plotting calls.

\* plot_anomaly_zoom(df_ts, start_time, end_time, sensors=sensors,
\*                   save_path=save_path, show=show)
PlotZoom(start_time, end_time, sensors, save_path, show, disk_ok) ==
    /\ df_ts # NoFrame
    /\ figures < MaxFigures
    /\ LET env == plot_anomaly_zoom(Env(files, figures), df_ts, start_time, end_time,
                                    sensors, save_path, show, disk_ok)
       IN  /\ files' = env.files
           /\ figures' = env.figures
           /\ stdout' = env.stdout
           /\ call' = [op |-> "plot_anomaly_zoom",
                       arg |-> <<start_time, end_time, sensors, save_path, show>>,
                       raised |-> env.raised,
                       info |-> <<files, figures, env.created, env.renders>>]
    /\ UNCHANGED <<df, df_ts, df_re, windows, baseline>>

\* plot_all_anomaly_windows(df_ts, wins, sensors=sensors, save_dir=save_dir)
PlotAll(wins, sensors, save_dir, disk_ok) ==
    /\ df_ts # NoFrame
    /\ figures < MaxFigures
    /\ LET env == plot_all_anomaly_windows(Env(files, figures), df_ts, wins, sensors,
                                           save_dir, "anomaly_zoom", disk_ok)
       IN  /\ files' = env.files
           /\ figures' = env.figures
           /\ stdout' = env.stdout
           /\ call' = [op |-> "plot_all_anomaly_windows",
                       arg |-> <<wins, sensors, save_dir>>,
                       raised |-> env.raised,
                       info |-> <<files, figures, env.created, env.renders>>]
    /\ UNCHANGED <<df, df_ts, df_re, windows, baseline>>

\* Time-indexed tables for the plotting calls: up to n rows with ascending,
\* distinct timestamps T0 + 0..m minutes.
PlotFrames(n, m) ==
    {f \in WinFrames(n, m) : \A i, j \in 1..Len(f.rows) : i < j => IndexOf(f)[i] < IndexOf(f)[j]}

\* The same tables with the rows in descending time order, as a caller who
\* sorted the other way would hand them over.
ReversedFrames(n, m) ==
    {[f EXCEPT !.rows = [i \in 1..Len(f.rows) |-> f.rows[Len(f.rows) + 1 - i]]] :
        f \in {g \in PlotFrames(n, m) : Len(g.rows) >= 2}}

\* The figures directory is missing, is there, or its name is taken by a file.
PlotFilesystems == {[NoFiles EXCEPT ![DirPath(FIGURES_DIR)] = k] : k \in {"absent", "dir", "file"}}

PlotTimes   == {Ts(t) : t \in 0..MaxMinute}
SensorArgs  == {None, Some(<<"v">>), Some(<<"w">>), Some(<<>>)}
SaveDirArgs == {None, Some(""), Some(FIGURES_DIR)}

\* Window lists the caller writes by hand: up to n windows (start, end,
\* anom_start, anom_end) that begin and end at the first or the last minute,
\* an end before the start included.
WindowLists(n) ==
    SeqsUpTo({<<s, e, s, e>> : s \in {0, MaxMinute}, e \in {0, MaxMinute}}, n)

InitPlot ==
    /\ df_ts \in PlotFrames(MaxEvents, MaxMinute) \cup ReversedFrames(MaxEvents, MaxMinute)
    /\ files \in PlotFilesystems
    /\ df = NoFrame
    /\ df_re = NoFrame
    /\ call = NoCall
    /\ windows = <<>>
    /\ figures = 0
    /\ stdout = <<>>
    /\ baseline = NoBaseline

\* One plotting call on a fresh table, or the windows then the batch, or the
\* batch on a list of windows the caller wrote.
NextPlot ==
    \/ /\ call.op = "none"
       /\ \E start_time \in PlotTimes \cup {Str(0), Str(0 - 1)}, end_time \in PlotTimes,
             sensors \in SensorArgs, save_path \in {None, Some(ZoomPng)},
             show \in BOOLEAN, disk_ok \in BOOLEAN :
             /\ (save_path = None => disk_ok)
             /\ PlotZoom(start_time, end_time, sensors, save_path, show, disk_ok)
    \/ /\ call.op = "none"
       /\ \E m \in Margins : GetAnomalyWindows(m)
    \/ /\ call.op = "get_anomaly_windows"
       /\ \E sensors \in SensorArgs, save_dir \in SaveDirArgs, disk_ok \in BOOLEAN :
             /\ (~Truthy(save_dir) => disk_ok)
             /\ PlotAll(windows, sensors, save_dir, disk_ok)
    \/ /\ call.op = "none"
       /\ \E wins \in WindowLists(MaxWindows), sensors \in {None, Some(<<"w">>)},
             save_dir \in {None, Some(FIGURES_DIR)}, disk_ok \in BOOLEAN :
             /\ (~Truthy(save_dir) => disk_ok)
             /\ PlotAll(wins, sensors, save_dir, disk_ok)

SpecPlot == InitPlot /\ [][NextPlot]_vars

----------------------------------------------------------------------------
\* A session: the caller prepares a raw frame, extracts windows and plots, in
\* any order and any number of times.

SessionFrames(n) ==
    {RawFrame(<<"Time", "v", "EVENT">>, rs) :
        rs \in SeqsUpTo({RawRow(t, Num(1), e) : t \in {Str(0), Str(MaxTime), Str(0 - 1)},
                                                 e \in WordCells}, n)}

Init ==
    /\ df \in SessionFrames(MaxRows)
    /\ df_ts = NoFrame
    /\ df_re = NoFrame
    /\ call = NoCall
    /\ windows = <<>>
    /\ files = NoFiles
    /\ figures = 0
    /\ stdout = <<>>
    /\ baseline = NoBaseline

Next ==
    \/ \E nc \in NumericColsArgs : Prepare(nc)
    \/ \E m \in {0, MaxMargin} : GetAnomalyWindows(m)
    \/ \E end_time \in {Ts(0), Ts(MaxTime)}, save_path \in {None, Some(ZoomPng)}, show \in BOOLEAN :
          PlotZoom(Ts(0), end_time, None, save_path, show, TRUE)
    \/ \E save_dir \in {None, Some(FIGURES_DIR)} : PlotAll(windows, None, save_dir, TRUE)

Spec == Init /\ [][Next]_vars

----------------------------------------------------------------------------
\* Properties of get_anomaly_windows.

\* The maximal contiguous runs of True in a boolean sequence, as <<first, last>>
\* positions.
Runs(events) ==
    {r \in (1..Len(events)) \X (1..Len(events)) :
        /\ r[1] <= r[2]
        /\ \A i \in r[1]..r[2] : events[i]
        /\ (r[1] = 1 \/ ~events[r[1] - 1])
        /\ (r[2] = Len(events) \/ ~events[r[2] + 1])}

Sorted(index) == \A i, j \in 1..Len(index) : i < j => index[i] <= index[j]

Extracted == call.op = "get_anomaly_windows"

\* C1: get_anomaly_windows returns exactly as many windows as the event column
\* has maximal contiguous runs of True, and the empty list when no row is True.
C1_WindowCount ==
    Extracted =>
        LET events == EventSeries(df_ts, "EVENT")
        IN  /\ Len(windows) = Cardinality(Runs(events))
            /\ ((\A i \in 1..Len(events) : ~events[i]) => windows = <<>>)

\* A table whose first and last rows are flagged, in two separate runs.
C1_Witness ==
    /\ Extracted
    /\ Len(df_ts.rows) >= 3
    /\ EventSeries(df_ts, "EVENT")[1]
    /\ EventSeries(df_ts, "EVENT")[Len(df_ts.rows)]
    /\ Len(windows) = 2

WindowOrdered(w) == w[1] <= w[3] /\ w[3] <= w[4] /\ w[4] <= w[2]
WindowClipped(w) == w[1] >= IndexMin(df_ts) /\ w[2] <= IndexMax(df_ts)

\* C2 as stated: for any table and any margin_minutes, every window has
\* window_start <= anomaly_start <= anomaly_end <= window_end and lies within
\* the table's time range.
C2_AnyMargin ==
    Extracted =>
        \A k \in 1..Len(windows) : WindowOrdered(windows[k]) /\ WindowClipped(windows[k])

\* C2 amended: every window lies within the table's time range whatever the
\* margin and the row order; the ordering window_start <= anomaly_start <=
\* anomaly_end <= window_end holds when the index is sorted ascending and
\* margin_minutes >= 0.
C2_SortedNonNegativeMargin ==
    Extracted =>
        \A k \in 1..Len(windows) :
            /\ WindowClipped(windows[k])
            /\ (Sorted(IndexOf(df_ts)) /\ call.arg[1] >= 0 => WindowOrdered(windows[k]))

\* A positive margin that the clipping cuts on both sides of a sorted table.
C2_Witness ==
    /\ Extracted
    /\ Sorted(IndexOf(df_ts))
    /\ call.arg[1] > 0
    /\ \E k \in 1..Len(windows) :
          /\ windows[k][3] - call.arg[1] < windows[k][1]
          /\ windows[k][4] + call.arg[1] > windows[k][2]
          /\ windows[k][1] < windows[k][3]

\* C3: on a time-sorted table the i-th window carries the timestamps of the
\* first and last row of the i-th maximal True run, runs touching the first or
\* last row included; flags [F,F,T,T,F,T,F] at 1-minute steps with margin 0
\* give (2,3,2,3) and (5,5,5,5).
C3_RunBounds ==
    Extracted /\ Sorted(IndexOf(df_ts)) =>
        LET events == EventSeries(df_ts, "EVENT")
            runs   == Runs(events)
        IN  /\ \A r \in runs :
                  LET i == Cardinality({q \in runs : q[1] <= r[1]})
                  IN  /\ i \in 1..Len(windows)
                      /\ windows[i][3] = IndexOf(df_ts)[r[1]]
                      /\ windows[i][4] = IndexOf(df_ts)[r[2]]
            /\ (df_ts = ScenarioFrame /\ call.arg[1] = 0
                    => windows = << <<2, 3, 2, 3>>, <<5, 5, 5, 5>> >>)

\* A sorted table with a run that begins at the first row and another that
\* ends at the last row, at distinct timestamps.
C3_Witness ==
    /\ Extracted
    /\ Sorted(IndexOf(df_ts))
    /\ Len(windows) = 2
    /\ windows[1][3] = IndexOf(df_ts)[1]
    /\ windows[2][4] = IndexOf(df_ts)[Len(df_ts.rows)]
    /\ windows[1][4] < windows[2][3]

\* The scenario table has been extracted with margin 0.
ScenarioExtracted == Extracted /\ df_ts = ScenarioFrame /\ call.arg[1] = 0

----------------------------------------------------------------------------
\* Properties of prepare_time_series.

Prepared == call.op = "prepare_time_series" /\ call.raised = "none"

\* The numeric columns a call selects: the ones the caller names, or else the
\* input's columns of numeric dtype other than EVENT.
SelectedColumns(input, numeric_cols) ==
    IF numeric_cols = None
    THEN {c \in {input.columns[k] : k \in 1..Len(input.columns)} :
             c \notin {"Time", "EVENT"} /\ Dtype(input, c) = "float64"}
    ELSE {numeric_cols.val[k] : k \in 1..Len(numeric_cols.val)}

StrictlyIncreasing(index) == \A i, j \in 1..Len(index) : i < j => index[i] < index[j]

\* The positions of the input rows that the call keeps: the time parses and
\* every selected numeric cell parses.
KeptPositions(input, numeric_cols) ==
    {i \in 1..Len(input.rows) :
        /\ to_datetime(input.rows[i].Time)[1] = "ts"
        /\ \A c \in SelectedColumns(input, numeric_cols) : to_numeric(input.rows[i][c])[1] = "num"}

\* C4: the output of prepare_time_series has no missing timestamp in its
\* index, no missing value in any selected numeric column, and a time index
\* that is non-decreasing from row to row.
C4_CleanAndSorted ==
    Prepared =>
        /\ df_ts.index = "Time"
        /\ \A i \in 1..Len(df_ts.rows) :
              /\ df_ts.rows[i].Time[1] = "ts"
              /\ \A c \in SelectedColumns(df, call.arg[1]) : df_ts.rows[i][c][1] = "num"
        /\ Sorted(IndexOf(df_ts))

\* A call that dropped a row for its unparseable time or sensor value and kept
\* another.
C4_Witness ==
    /\ Prepared
    /\ Len(df.rows) > Len(df_ts.rows)
    /\ Len(df_ts.rows) >= 1
    /\ \E i \in 1..Len(df.rows) :
          df.rows[i].Time = Str(0 - 1) \/ (df.rows[i].v = Str(0 - 1) /\ call.arg[1] # None)

\* C5 as stated: prepare_time_series called on a frame it returned completes
\* and returns the same rows in the same order.
C5_Idempotent ==
    call.op = "prepare_again" => call.raised = "none" /\ df_re = df_ts

SameRowBag(a, b) ==
    /\ Len(a) = Len(b)
    /\ \A r \in {a[i] : i \in 1..Len(a)} \cup {b[i] : i \in 1..Len(b)} :
          Cardinality({i \in 1..Len(a) : a[i] = r}) = Cardinality({i \in 1..Len(b) : b[i] = r})

\* C5 amended: called on the frame it returned, prepare_time_series raises
\* KeyError (the time column has become the index); called on that frame with
\* the index restored as a column (reset_index), it completes and returns the
\* same rows with the same timestamps row by row, in the same order whenever
\* no two rows share a timestamp.
C5_IdempotentAfterReset ==
    /\ call.op = "prepare_again" => call.raised = "KeyError" /\ df_re = NoFrame
    /\ call.op = "prepare_again_reset" =>
          /\ call.raised = "none"
          /\ df_re.index = df_ts.index /\ df_re.columns = df_ts.columns
          /\ SameRowBag(df_re.rows, df_ts.rows)
          /\ IndexOf(df_re) = IndexOf(df_ts)
          /\ (StrictlyIncreasing(IndexOf(df_ts)) => df_re = df_ts)

\* The second call on the reset frame returned the two rows of the first,
\* which the input held in the opposite order.
C5_Witness ==
    /\ call.op = "prepare_again_reset"
    /\ Len(df_ts.rows) >= 2
    /\ df_re = df_ts
    /\ Len(df.rows) >= 2
    /\ ~Sorted([i \in 1..Len(df.rows) |-> to_datetime(df.rows[i].Time)[2]])

\* C6 as stated: after prepare_time_series the timestamps are pairwise
\* distinct and strictly increasing, for every input frame.
C6_StrictlyIncreasing ==
    Prepared => StrictlyIncreasing(IndexOf(df_ts))

\* C6 amended: after prepare_time_series the timestamps are non-decreasing
\* from row to row; they are pairwise distinct and strictly increasing exactly
\* when no two input rows that survive the drop carry the same timestamp (rows
\* sharing a timestamp are all kept).
C6_IncreasingIffDistinctInput ==
    Prepared =>
        LET kept == KeptPositions(df, call.arg[1])
        IN  /\ Sorted(IndexOf(df_ts))
            /\ StrictlyIncreasing(IndexOf(df_ts))
                  <=> \A i, j \in kept :
                         i # j => to_datetime(df.rows[i].Time) # to_datetime(df.rows[j].Time)

\* Two input rows with the same timestamp both reached the output.
C6_Witness ==
    /\ Prepared
    /\ Len(df_ts.rows) >= 2
    /\ \E i \in 1..(Len(df_ts.rows) - 1) : IndexOf(df_ts)[i] = IndexOf(df_ts)[i + 1]

\* The columns a call requires of its input: the time column and every
\* numeric column the caller names.
RequiredColumns(numeric_cols) ==
    {"Time"} \cup (IF numeric_cols = None THEN {}
                   ELSE {numeric_cols.val[k] : k \in 1..Len(numeric_cols.val)})

ColumnsOf(f) == {f.columns[k] : k \in 1..Len(f.columns)}

\* C13: prepare_time_series never raises because of malformed cell values:
\* on a frame that has the time column and the selected numeric columns it
\* returns a table whatever the cells hold, and it raises (KeyError) only on
\* a frame that lacks a required column.
C13_RaisesOnlyOnMissingColumn ==
    call.op = "prepare_time_series" =>
        IF RequiredColumns(call.arg[1]) \subseteq ColumnsOf(df)
        THEN call.raised = "none" /\ df_ts.index = "Time"
        ELSE call.raised = "KeyError" /\ df_ts = NoFrame

\* A call that returned on a frame of two rows in which no row is sound: an
\* unparseable or missing time in one, an unparseable sensor value in the
\* other; the table returned is empty.
C13_Witness ==
    /\ Prepared
    /\ call.arg[1] = Some(<<"v">>)
    /\ Len(df.rows) = 2
    /\ \E i, j \in 1..2 :
          /\ df.rows[i].Time \in {Str(0 - 1), NaN}
          /\ df.rows[j].Time = Str(0) /\ df.rows[j].v = Str(0 - 1)
    /\ Len(df_ts.rows) = 0

\* The input row r as the call converts it: parsed time, coerced selected
\* numeric cells, boolean EVENT.
ConvertedRow(input, r, numeric_cols) ==
    [Time  |-> to_datetime(r.Time),
     v     |-> IF "v" \in SelectedColumns(input, numeric_cols) THEN to_numeric(r.v) ELSE r.v,
     EVENT |-> IF "EVENT" \in ColumnsOf(input) /\ Dtype(input, "EVENT") # "bool"
               THEN to_event(r.EVENT) ELSE r.EVENT]

\* The converted input rows the call is to keep, in input order.
KeptRows(input, numeric_cols) ==
    LET kept == SelectSeq([i \in 1..Len(input.rows) |-> i],
                          LAMBDA i : i \in KeptPositions(input, numeric_cols))
    IN  [k \in 1..Len(kept) |-> ConvertedRow(input, input.rows[kept[k]], numeric_cols)]

\* C14: prepare_time_series drops exactly the rows whose time or whose value
\* in a selected numeric column is missing or unparseable: every other input
\* row is in the output exactly once, rows sharing a timestamp included, and
\* the output holds no other row.
C14_DropsExactlyBadRows ==
    Prepared => SameRowBag(df_ts.rows, KeptRows(df, call.arg[1]))

\* A call that dropped a row for its sensor value alone (its time parses)
\* and kept the other row of the input.
C14_Witness ==
    /\ Prepared
    /\ call.arg[1] = Some(<<"v">>)
    /\ Len(df.rows) = 2
    /\ Len(df_ts.rows) = 1
    /\ \E i \in 1..2 : df.rows[i].Time = Str(0) /\ df.rows[i].v \in {Str(0 - 1), NaN}
    /\ df_ts.rows[1].v = Num(1)

----------------------------------------------------------------------------
\* Properties of load_and_prepare_dataset.

DatasetLoaded == call.op = "load_and_prepare_dataset"

\* What the loader of the last call returned.
LoaderData == call.arg[1][2]

\* t is what prepare_time_series returns for frame f under the call's
\* arguments.
PreparedFrom(t, f) ==
    /\ f # NoFrame
    /\ t # NoFrame
    /\ t.index = "Time"
    /\ SameRowBag(t.rows, KeptRows(f, call.arg[2]))

\* C16: load_and_prepare_dataset returns (prepared train, prepared test,
\* prepared validation or None): a loader result (train, test) gives
\* (train, test, None), a result of length 3 read as (train, val, test) gives
\* (train, test, val), and a result of any other length raises ValueError
\* before any frame is prepared.
C16_TupleOrder ==
    DatasetLoaded =>
        /\ Len(LoaderData) \notin {2, 3} =>
              /\ call.raised = "ValueError"
              /\ call.info = << <<>>, <<>> >>
        /\ (Len(LoaderData) = 2 /\ \A k \in 1..2 : "Time" \in ColumnsOf(LoaderData[k])) =>
              /\ call.raised = "none"
              /\ Len(call.info[1]) = 3
              /\ PreparedFrom(call.info[1][1], LoaderData[1])
              /\ PreparedFrom(call.info[1][2], LoaderData[2])
              /\ call.info[1][3] = NoFrame
        /\ (/\ Len(LoaderData) = 3
            /\ \A k \in {1, 3} : "Time" \in ColumnsOf(LoaderData[k])
            /\ LoaderData[2] = NoFrame \/ "Time" \in ColumnsOf(LoaderData[2])) =>
              /\ call.raised = "none"
              /\ Len(call.info[1]) = 3
              /\ PreparedFrom(call.info[1][1], LoaderData[1])
              /\ PreparedFrom(call.info[1][2], LoaderData[3])
              /\ IF LoaderData[2] = NoFrame THEN call.info[1][3] = NoFrame
                 ELSE PreparedFrom(call.info[1][3], LoaderData[2])

\* A loader returned three frames that prepare into three different tables
\* (a row at T0, a row at a later minute, no row); the call returned them as
\* (train, test, val).
C16_Witness ==
    /\ DatasetLoaded
    /\ call.raised = "none"
    /\ call.arg[1][1] = "function"
    /\ Len(LoaderData) = 3
    /\ Len(call.info[1]) = 3
    /\ \A k \in 1..3 : call.info[1][k] # NoFrame
    /\ IndexOf(call.info[1][1]) = <<0>>
    /\ IndexOf(call.info[1][2]) = <<>>
    /\ IndexOf(call.info[1][3]) = <<MaxTime>>
    /\ LoaderData[2].rows[1].Time = Str(MaxTime)
    /\ LoaderData[3].rows[1].Time = Str(0 - 1)

----------------------------------------------------------------------------
\* Properties of load_gecco2018_csv.

Loaded == call.op = "load_gecco2018_csv"

\* The path the claim calls resolved: the fixed default file under the
\* raw-data directory when path is omitted, the given path otherwise.
ResolvedPath(path) ==
    IF path = None THEN <<"data/raw", "1_gecco2018_water_quality.csv", 0 - 1>>
    ELSE PathOf(path.val)

\* C7: when nothing exists at the resolved path, load_gecco2018_csv raises
\* FileNotFoundError itself, with a message naming that path, before any read
\* is attempted; with path omitted the resolved path is the default file
\* under the raw-data directory.
C7_NotFoundBeforeRead ==
    Loaded /\ files[ResolvedPath(call.arg[1])] = "absent" =>
        /\ call.raised = "FileNotFoundError"
        /\ call.info = <<"load_gecco2018_csv", <<ResolvedPath(call.arg[1])>>, <<>> >>

\* A call with path omitted while the default file is missing and another CSV
\* exists.
C7_Witness ==
    /\ Loaded
    /\ call.arg[1] = None
    /\ files[DefaultCsv] = "absent"
    /\ files[OtherCsv] = "file"
    /\ call.raised = "FileNotFoundError"

----------------------------------------------------------------------------
\* Properties of lof_baseline.

Scored == call.op = "lof_baseline" /\ call.raised = "none"

\* C9: lof_baseline returns one score per input row, and every row that
\* fit_predict labels -1 gets a strictly higher score than every row it
\* labels +1.
C9_OutliersScoreHigher ==
    Scored =>
        /\ Len(baseline.scores) = baseline.n_rows
        /\ \A i, j \in 1..baseline.n_rows :
              baseline.labels[i] = 0 - 1 /\ baseline.labels[j] = 1
                  => baseline.scores[i][2] > baseline.scores[j][2]

\* A matrix with an outlier and an inlier has been scored.
C9_Witness ==
    /\ Scored
    /\ \E i, j \in 1..baseline.n_rows : baseline.labels[i] = 0 - 1 /\ baseline.labels[j] = 1

----------------------------------------------------------------------------
\* Properties of plot_anomaly_zoom.

Zoomed == call.op = "plot_anomaly_zoom"

\* The inclusive range [start_time, end_time] of the last plot_anomaly_zoom
\* call is a range of timestamps that selects no row of the table.
SelectsNoRow ==
    /\ to_datetime(call.arg[1])[1] = "ts"
    /\ to_datetime(call.arg[2])[1] = "ts"
    /\ ~\E i \in 1..Len(df_ts.rows) :
          /\ to_datetime(call.arg[1])[2] <= IndexOf(df_ts)[i]
          /\ IndexOf(df_ts)[i] <= to_datetime(call.arg[2])[2]

\* C8: when [start_time, end_time] selects zero rows, plot_anomaly_zoom prints
\* a warning and returns normally, creating no figure, no directory and no
\* file, even when save_path is given.
C8_EmptySelectionNoFigure ==
    Zoomed /\ SelectsNoRow =>
        /\ call.raised = "none"
        /\ Len(stdout) = 1 /\ stdout[1][1] = "warning"
        /\ call.info[3] = 0
        /\ figures = call.info[2]
        /\ files = call.info[1]

\* A call with save_path given on a table that has rows, none of them in the
\* range, while the figures directory does not exist.
C8_Witness ==
    /\ Zoomed
    /\ SelectsNoRow
    /\ Len(df_ts.rows) >= 2
    /\ to_datetime(call.arg[1])[2] <= to_datetime(call.arg[2])[2]
    /\ call.arg[4] = Some(ZoomPng)
    /\ call.info[1][DirPath(FIGURES_DIR)] = "absent"

\* C12: a plot_anomaly_zoom call with show=False never leaks a figure: on
\* every path, with or without save_path and whether or not saving succeeds,
\* the number of open figures after the call equals the number before it.
C12_NoFigureLeak ==
    Zoomed /\ call.arg[5] = FALSE => figures = call.info[2]

\* The leaking paths: the call made a figure with plt.subplots and raised
\* before reaching plt.close(fig), so one more figure is open than before.
C12_LeakOnRaise ==
    Zoomed /\ call.arg[5] = FALSE /\ figures # call.info[2] =>
        /\ call.raised # "none"
        /\ call.info[3] = 1
        /\ figures = call.info[2] + 1

\* A call with show=False and save_path given whose save failed after the
\* figure was made.
C12_Witness ==
    /\ Zoomed
    /\ call.arg[5] = FALSE
    /\ call.arg[4] = Some(ZoomPng)
    /\ call.raised \in {"OSError", "FileExistsError"}
    /\ figures = call.info[2] + 1

----------------------------------------------------------------------------
\* Properties of plot_all_anomaly_windows.

Batched == call.op = "plot_all_anomaly_windows"

\* save_dir of the last batch is set: given, and not the empty string.
SaveDirSet == call.arg[3] # None /\ call.arg[3] # Some("")

\* The save path the window at position i (counted from 0) is to be given.
ExpectedSavePath(i) ==
    IF SaveDirSet THEN Some(<<call.arg[3].val, "anomaly_zoom", i>>) ELSE None

\* The inclusive range [start, end] of window w selects a row of the table.
SelectsRows(w) ==
    \E i \in 1..Len(df_ts.rows) : w[1] <= IndexOf(df_ts)[i] /\ IndexOf(df_ts)[i] <= w[2]

\* The calls of plot_anomaly_zoom the last batch made are the first n windows
\* of the list, in list order, each with show=False and its own save path.
RenderedInOrder(n) ==
    /\ Len(call.info[4]) = n
    /\ \A k \in 1..n : call.info[4][k] = <<k - 1, ExpectedSavePath(k - 1), FALSE>>

\* What the batch left behind for the window at position k (counted from 1):
\* a warning and no file of its own when its selection is empty, its file
\* under its own index when it selects rows and save_dir is set.
RenderOutcome(k) ==
    LET w == call.arg[1][k]
        p == <<FIGURES_DIR, "anomaly_zoom", k - 1>>
    IN  IF SelectsRows(w)
        THEN SaveDirSet =>
                /\ files[p] = "file"
                /\ \E j \in 1..Len(stdout) : stdout[j] = <<"saved", p>>
        ELSE /\ \E j \in 1..Len(stdout) : stdout[j] = <<"warning", <<w[1], w[2]>> >>
             /\ files[p] = call.info[1][p]

Composed == Batched /\ call.arg[1] = windows

\* The files of the batch are exactly anomaly_zoom_0.png ..
\* anomaly_zoom_{n-1}.png: each was written and announced, no other was.
BatchFilesWritten(n) ==
    /\ \A i \in 0..MaxEvents :
          files[<<FIGURES_DIR, "anomaly_zoom", i>>] = (IF i < n THEN "file" ELSE "absent")
    /\ stdout = [k \in 1..n |-> <<"saved", <<FIGURES_DIR, "anomaly_zoom", k - 1>> >>]

\* Every window selects a row, its own anomaly rows among them, no render
\* warned of an empty selection, and a batch with save_dir set in which no
\* call raised wrote exactly its n files.
ComposedOutcome ==
    /\ \A k \in 1..Len(windows) :
          /\ SelectsRows(windows[k])
          /\ \E i \in 1..Len(df_ts.rows) :
                /\ df_ts.rows[i].EVENT = Bool(TRUE)
                /\ windows[k][3] <= IndexOf(df_ts)[i] /\ IndexOf(df_ts)[i] <= windows[k][4]
                /\ windows[k][1] <= IndexOf(df_ts)[i] /\ IndexOf(df_ts)[i] <= windows[k][2]
    /\ \A j \in 1..Len(stdout) : stdout[j][1] # "warning"
    /\ (SaveDirSet /\ call.raised = "none") => BatchFilesWritten(Len(windows))

----------------------------------------------------------------------------
\* Properties of the session.

\* C10: no call mutates a frame the caller holds: across every call to
\* prepare_time_series, get_anomaly_windows, plot_anomaly_zoom and
\* plot_all_anomaly_windows the raw frame stays as it was, and so does the
\* time-indexed frame once prepare_time_series has returned it.
C10_CallerFramesUnchanged ==
    [][/\ df' = df
       /\ (df_ts # NoFrame => df_ts' = df_ts)]_vars

\* All four operations have been called: the frame was prepared into a new
\* one with parsed cells, windows were extracted from it, one zoom was saved
\* and the batch was plotted, and the raw frame still holds its text cells.
C10_Witness ==
    /\ call.op = "plot_all_anomaly_windows"
    /\ Len(windows) >= 1
    /\ files[ZoomPng] = "file"
    /\ Len(df.rows) = Len(df_ts.rows)
    /\ \A i \in 1..Len(df.rows) : df.rows[i].Time[1] = "str" /\ df.rows[i].EVENT[1] = "str"
    /\ \A i \in 1..Len(df_ts.rows) : df_ts.rows[i].Time[1] = "ts" /\ df_ts.rows[i].EVENT[1] = "bool"

====
